---- MODULE Spec2Model ----
(***************************************************************************)
(* Model of src/search.js: the two backend adapters (searchPG, searchES),  *)
(* the dispatcher (search) and the performance comparison engine           *)
(* (searchPerformanceComparison), run on the single-threaded event loop.   *)
(*                                                                         *)
(* One action is one event-loop job: the synchronous part of a call, or an *)
(* I/O callback together with every promise continuation (microtask) it    *)
(* schedules, which run to completion before the next callback.            *)
(***************************************************************************)
EXTENDS Integers, Sequences, FiniteSets, TLC

VARIABLES
    call,      \* the top-level call made: search(db, phrase) or compare(phrases, retakes)
    outcome,   \* the promise that call returned: pending, fulfilled(value), rejected(reason)
    perfs,     \* searchPerformanceComparison: the perfs array (phrase, esTimings, pgTimings)
    retakes,   \* searchPerformanceComparison: the retakes parameter, decremented by the loop
    cur,       \* searchPerformanceComparison: index in perfs of the for-of loop's entry (0: none)
    res,       \* the slots of the Promise.all the loop awaits, in the order of ["es","pg"]
    inflight,  \* the dispatches whose search() promise is still pending
    calls,     \* history: the adapter invocations, in order
    returned,  \* history: the SearchResults search() returned
    failures,  \* history: the adapter rejections, in order
    uncaught,  \* the exceptions that escaped an I/O callback, with the dispatch they left pending
    now        \* Date.now()

vars == <<call, outcome, perfs, retakes, cur, res, inflight, calls, returned, failures, uncaught, now>>

----------------------------------------------------------------------------
(* Bounds of the model *)

MaxPhrases == 2
MaxRetakes == 2
MaxTime == 1

\* the phrase lists tried: the first n lines of a file that alternates a phrase
\* and an empty line, starting with either
PhraseSet == {"", "moby dick"}
PhraseFile(first, n) ==
    [i \in 1..n |-> IF i % 2 = 1 THEN first ELSE CHOOSE p \in PhraseSet : p # first]
PhraseLists == {PhraseFile(first, n) : first \in PhraseSet, n \in 0..MaxPhrases}
DbInputs == {"pg", "es", "PG", "mysql", ""}
\* err of the request callback (NoError: null) and rejections of pg.query
NoError == [code |-> "null"]
ESErrors == {[code |-> "ECONNREFUSED"], [code |-> "ETIMEDOUT"]}
PGErrors == {[code |-> "57P01"]}

\* JSON bodies the search engine can answer with (request option json: true)
WellFormedBodies ==
    { [hits |-> [hits |-> <<>>]],
      [hits |-> [hits |-> <<[_source |-> "book1"]>>]] }
MalformedBodies ==
    { [error |-> "index_not_found_exception"],
      [hits |-> [total |-> 0]] }
\* rows the relational store can answer with
RowSets == { <<>>, <<[details |-> "book1", relevance |-> 1]>> }

----------------------------------------------------------------------------
(* JavaScript numbers of the report: a rational n/d in lowest terms with   *)
(* d > 0, or d = 0 for the non-finite values: 0/0 is NaN, 1/0 is Infinity, *)
(* -1/0 is -Infinity.  Rounding to binary64 is not modelled.               *)

RECURSIVE GCD(_, _)
GCD(a, b) == IF b = 0 THEN a ELSE GCD(b, a % b)

Abs(x) == IF x < 0 THEN -x ELSE x
Sign(x) == IF x < 0 THEN -1 ELSE IF x > 0 THEN 1 ELSE 0

Norm(n, d) ==
    IF d = 0 THEN [n |-> Sign(n), d |-> 0]
    ELSE LET s == IF d < 0 THEN -1 ELSE 1
             g == GCD(Abs(n), Abs(d))
         IN  [n |-> (s * n) \div g, d |-> (s * d) \div g]

Num(i) == [n |-> i, d |-> 1]
NaN == [n |-> 0, d |-> 0]
Infinity == [n |-> 1, d |-> 0]
NegInfinity == [n |-> -1, d |-> 0]

\* a + b
Add(a, b) ==
    IF a = NaN \/ b = NaN THEN NaN
    ELSE IF a.d = 0 /\ b.d = 0 THEN (IF a = b THEN a ELSE NaN)
    ELSE IF a.d = 0 THEN a
    ELSE IF b.d = 0 THEN b
    ELSE Norm(a.n * b.d + b.n * a.d, a.d * b.d)

\* a / b
Divide(a, b) ==
    IF a = NaN \/ b = NaN THEN NaN
    ELSE IF a.d = 0 /\ b.d = 0 THEN NaN
    ELSE IF b.d = 0 THEN Num(0)
    ELSE IF a.d = 0 THEN (IF b.n < 0 THEN Norm(-a.n, 0) ELSE a)
    ELSE Norm(a.n * b.d, a.d * b.n)

\* a <= b on numbers that are not NaN
Leq(a, b) ==
    IF a.d = 0 /\ b.d = 0 THEN a.n <= b.n
    ELSE IF a.d = 0 THEN a.n < 0
    ELSE IF b.d = 0 THEN b.n > 0
    ELSE a.n * b.d <= b.n * a.d

----------------------------------------------------------------------------
(* Statistics (lines 112-117) *)

\* arr.reduce((a, b) => a + b, 0): a left fold from 0
RECURSIVE arrSumFrom(_, _, _)
arrSumFrom(acc, arr, i) ==
    IF i > Len(arr) THEN acc ELSE arrSumFrom(Add(acc, arr[i]), arr, i + 1)

arrSumSkipFirst(arr) == arrSumFrom(Num(0), arr, 2)
arrSum(arr) == arrSumFrom(Num(0), arr, 1)

\* Math.max(...arr) and Math.min(...arr) of millisecond samples
RECURSIVE maxFrom(_, _, _)
maxFrom(acc, arr, i) ==
    IF i > Len(arr) THEN acc
    ELSE maxFrom(IF Leq(acc, Num(arr[i])) THEN Num(arr[i]) ELSE acc, arr, i + 1)

RECURSIVE minFrom(_, _, _)
minFrom(acc, arr, i) ==
    IF i > Len(arr) THEN acc
    ELSE minFrom(IF Leq(Num(arr[i]), acc) THEN Num(arr[i]) ELSE acc, arr, i + 1)

MathMaxZero(arr) == maxFrom(Num(0), arr, 1)
MathMax(arr) == maxFrom(NegInfinity, arr, 1)
MathMin(arr) == minFrom(Infinity, arr, 1)

Nums(arr) == [i \in 1..Len(arr) |-> Num(arr[i])]

stats(arr) ==
    [max |-> MathMax(arr),
     min |-> MathMin(arr),
     ave |-> Divide(arrSum(Nums(arr)), Num(Len(arr)))]

\* arr.slice(1)
sliceAll(arr) == arr
slice1(arr) == IF Len(arr) = 0 THEN <<>> ELSE Tail(arr)

\* lines 119-127: the value searchPerformanceComparison returns
withStats(timings) ==
    LET s == stats(slice1(timings))
    IN  [timings |-> timings, max |-> s.max, min |-> s.min, ave |-> s.ave]

Report(pf) ==
    LET perfsWithStats ==
            [i \in 1..Len(pf) |->
                [phrase |-> pf[i].phrase,
                 es |-> withStats(pf[i].esTimings),
                 pg |-> withStats(pf[i].pgTimings)]]
    IN  [perfs |-> perfsWithStats,
         sumOfAveragesES |-> arrSum([i \in 1..Len(pf) |-> perfsWithStats[i].es.ave]),
         sumOfAveragesPG |-> arrSum([i \in 1..Len(pf) |-> perfsWithStats[i].pg.ave])]

----------------------------------------------------------------------------
(* Dispatcher: search (lines 53-65) *)

NoCall == [fn |-> "none"]
PendingPromise == [state |-> "pending"]
Fulfilled(v) == [state |-> "fulfilled", value |-> v]
Rejected(e) == [state |-> "rejected", reason |-> e]

\* lines 56-58: the branch search takes for a backend identifier
RouteDefaultES(db) == IF db = "pg" THEN "pg" ELSE "es"
Route(db) ==
    IF db = "pg" THEN "pg"
    ELSE IF db = "es" THEN "es"
    ELSE "throw"

\* line 58
InvalidDbError(db) == [type |-> "Error", message |-> "Invalid db option", db |-> db]

\* lines 54-57: the dispatch search starts; entry and trial tag the caller's loop position
Dispatch(db, phrase, entry, trial) ==
    [db |-> db, adapter |-> Route(db), phrase |-> phrase, start |-> now,
     entry |-> entry, trial |-> trial]

\* lines 59-64
SearchResult(d, hits) == [db |-> d.db, hits |-> hits, timeTaken |-> now - d.start]

Invocation(d) == [adapter |-> d.adapter, phrase |-> d.phrase, entry |-> d.entry, trial |-> d.trial]

----------------------------------------------------------------------------
(* Adapters: searchPG (lines 16-35), searchES (lines 37-51) *)

HasHitList(body) == "hits" \in DOMAIN body /\ "hits" \in DOMAIN body.hits

\* lines 46-50: the request callback. It rejects on err, resolves with the
\* sources of the hits, and throws (inside the callback, outside the promise
\* executor) when body.hits.hits cannot be read.
esCallbackSwallow(err, body) ==
    IF err # NoError THEN [state |-> "fulfilled", hits |-> <<>>]
    ELSE IF ~HasHitList(body) THEN [state |-> "thrown", error |-> "TypeError"]
    ELSE [state |-> "fulfilled",
          hits |-> [i \in 1..Len(body.hits.hits) |-> body.hits.hits[i]._source]]
esCallback(err, body) ==
    IF err # NoError THEN [state |-> "rejected", reason |-> err]
    ELSE IF ~HasHitList(body) THEN [state |-> "thrown", error |-> "TypeError"]
    ELSE [state |-> "fulfilled",
          hits |-> [i \in 1..Len(body.hits.hits) |-> body.hits.hits[i]._source]]

\* lines 31-33
pgRows(rows) == [state |-> "fulfilled", hits |-> [i \in 1..Len(rows) |-> rows[i].details]]
pgError(err) == [state |-> "rejected", reason |-> err]

----------------------------------------------------------------------------
(* Performance comparison engine: searchPerformanceComparison (lines 95-128) *)

\* line 105
Backends == <<"es", "pg">>
Slot(db) == CHOOSE k \in 1..Len(Backends) : Backends[k] = db

EmptySlots == [k \in 1..Len(Backends) |-> [state |-> "pending", timeTaken |-> 0]]

\* line 104: Promise.all fulfils when every slot is fulfilled
PromiseAny(r) == \E k \in 1..Len(r) : r[k].state = "fulfilled"
PromiseAll(r) == \A k \in 1..Len(r) : r[k].state = "fulfilled"

\* lines 96-100
InitPerfs(searchPhrases) ==
    [i \in 1..Len(searchPhrases) |->
        [phrase |-> searchPhrases[i], esTimings |-> <<>>, pgTimings |-> <<>>]]

\* lines 107-108
pushSwapped(entry, r) ==
    [entry EXCEPT !.esTimings = Append(@, r[2].timeTaken),
                  !.pgTimings = Append(@, r[1].timeTaken)]
pushTimings(entry, r) ==
    [entry EXCEPT !.esTimings = Append(@, r[1].timeTaken),
                  !.pgTimings = Append(@, r[2].timeTaken)]

\* line 110: retakes-- > 0, the test on the value before the decrement
LoopAgainPreDecrement(rt) == rt - 1 > 0
LoopAgain(rt) == rt > 0

\* lines 102-110: where the loops go after entry i of n, with retakes rt
LoopStepPerPhrase(i, n, rt) ==
    IF LoopAgain(rt) THEN [cur |-> i, retakes |-> rt - 1, done |-> FALSE]
    ELSE IF i < n THEN [cur |-> i + 1, retakes |-> call.retakes, done |-> FALSE]
    ELSE [cur |-> 0, retakes |-> rt - 1, done |-> TRUE]
LoopStep(i, n, rt) ==
    IF i < n THEN [cur |-> i + 1, retakes |-> rt, done |-> FALSE]
    ELSE IF LoopAgain(rt) THEN [cur |-> 1, retakes |-> rt - 1, done |-> FALSE]
    ELSE [cur |-> 0, retakes |-> rt - 1, done |-> TRUE]

\* lines 102-110 over an empty perfs array: the body awaits nothing
RECURSIVE EmptyLoop(_)
EmptyLoop(rt) == IF LoopAgain(rt) THEN EmptyLoop(rt - 1) ELSE rt - 1

\* line 105: the two dispatches of entry i, started in the order of Backends
StartDispatches(pf, i) ==
    [k \in 1..Len(Backends) |->
        Dispatch(Backends[k], pf[i].phrase, i, Len(pf[i].esTimings) + 1)]

Range(f) == {f[k] : k \in DOMAIN f}

\* The state of the call after the search promise of dispatch d settles with
\* o: the continuation of search, then of Promise.all, then of the loop.
After(d, o) ==
    LET same == [outcome |-> outcome, perfs |-> perfs, retakes |-> retakes,
                 cur |-> cur, res |-> res, started |-> <<>>]
    IN
    IF outcome.state # "pending" THEN same
    ELSE IF o.state = "rejected" THEN [same EXCEPT !.outcome = Rejected(o.reason)]
    ELSE IF d.entry = 0 THEN [same EXCEPT !.outcome = Fulfilled(SearchResult(d, o.hits))]
    ELSE
        LET r2 == [res EXCEPT ![Slot(d.db)] =
                       [state |-> "fulfilled", timeTaken |-> SearchResult(d, o.hits).timeTaken]]
        IN
        IF ~PromiseAll(r2) THEN [same EXCEPT !.res = r2]
        ELSE
            LET pf2 == [perfs EXCEPT ![cur] = pushTimings(@, r2)]
                step == LoopStep(cur, Len(pf2), retakes)
            IN
            IF step.done
            THEN [outcome |-> Fulfilled(Report(pf2)), perfs |-> pf2, retakes |-> step.retakes,
                  cur |-> 0, res |-> EmptySlots, started |-> <<>>]
            ELSE [outcome |-> outcome, perfs |-> pf2, retakes |-> step.retakes,
                  cur |-> step.cur, res |-> EmptySlots,
                  started |-> StartDispatches(pf2, step.cur)]

----------------------------------------------------------------------------
(* Actions *)

Crashed == uncaught # {}

Init ==
    /\ call = NoCall
    /\ outcome = PendingPromise
    /\ perfs = <<>>
    /\ retakes = 0
    /\ cur = 0
    /\ res = EmptySlots
    /\ inflight = {}
    /\ calls = <<>>
    /\ returned = {}
    /\ failures = <<>>
    /\ uncaught = {}
    /\ now = 0

\* search(db, searchPhrase), up to its first await
CallSearch ==
    \E db \in DbInputs, phrase \in PhraseSet :
        /\ call = NoCall
        /\ call' = [fn |-> "search", db |-> db, phrase |-> phrase]
        /\ IF Route(db) = "throw"
           THEN /\ outcome' = Rejected(InvalidDbError(db))
                /\ UNCHANGED <<inflight, calls>>
           ELSE LET d == Dispatch(db, phrase, 0, 0)
                IN  /\ inflight' = {d}
                    /\ calls' = Append(calls, Invocation(d))
                    /\ UNCHANGED outcome
        /\ UNCHANGED <<perfs, retakes, cur, res, returned, failures, uncaught, now>>

\* searchPerformanceComparison(searchPhrases, retakes), up to its first await
CallCompare ==
    \E searchPhrases \in PhraseLists, r \in 0..MaxRetakes :
        /\ call = NoCall
        /\ call' = [fn |-> "compare", searchPhrases |-> searchPhrases, retakes |-> r]
        /\ perfs' = InitPerfs(searchPhrases)
        /\ res' = EmptySlots
        /\ IF Len(searchPhrases) = 0
           THEN /\ retakes' = EmptyLoop(r)
                /\ cur' = 0
                /\ outcome' = Fulfilled(Report(perfs'))
                /\ UNCHANGED <<inflight, calls>>
           ELSE LET started == StartDispatches(perfs', 1)
                IN  /\ retakes' = r
                    /\ cur' = 1
                    /\ inflight' = Range(started)
                    /\ calls' = calls \o [k \in 1..Len(started) |-> Invocation(started[k])]
                    /\ UNCHANGED outcome
        /\ UNCHANGED <<returned, failures, uncaught, now>>

\* the clock advances while a backend is working
Tick ==
    /\ ~Crashed
    /\ inflight # {}
    /\ now < MaxTime
    /\ now' = now + 1
    /\ UNCHANGED <<call, outcome, perfs, retakes, cur, res, inflight, calls, returned,
                   failures, uncaught>>

\* the backend answers dispatch d with error err (NoError: with data)
Failed(d, err) ==
    IF err = NoError THEN failures
    ELSE Append(failures, [db |-> d.db, entry |-> d.entry, trial |-> d.trial,
                           reason |-> err, awaited |-> outcome.state = "pending"])

\* the adapter's promise of dispatch d settles with o, and every continuation runs
Settle(d, o) ==
    LET a == After(d, o)
    IN  /\ outcome' = a.outcome
        /\ perfs' = a.perfs
        /\ retakes' = a.retakes
        /\ cur' = a.cur
        /\ res' = a.res
        /\ inflight' = (inflight \ {d}) \cup Range(a.started)
        /\ calls' = calls \o [k \in 1..Len(a.started) |-> Invocation(a.started[k])]
        /\ returned' = IF o.state = "fulfilled"
                       THEN returned \cup {[db |-> d.db, entry |-> d.entry, trial |-> d.trial,
                                              timeTaken |-> SearchResult(d, o.hits).timeTaken]}
                       ELSE returned
        /\ UNCHANGED <<call, uncaught, now>>

\* the request callback of searchES runs with (err, res, body)
ESCallback(d, err, body) ==
    LET o == esCallback(err, body)
    IN  /\ failures' = Failed(d, err)
        /\ IF o.state = "thrown"
           THEN /\ uncaught' = uncaught \cup {[dispatch |-> d, error |-> o.error]}
                /\ UNCHANGED <<call, outcome, perfs, retakes, cur, res, inflight, calls,
                               returned, now>>
           ELSE Settle(d, o)

ESResponse ==
    \E d \in inflight, body \in WellFormedBodies \cup MalformedBodies :
        /\ ~Crashed
        /\ d.adapter = "es"
        /\ ESCallback(d, NoError, body)

ESTransportError ==
    \E d \in inflight, err \in ESErrors :
        /\ ~Crashed
        /\ d.adapter = "es"
        /\ ESCallback(d, err, [none |-> TRUE])

\* pg.query resolves with rows
PGRows ==
    \E d \in inflight, rows \in RowSets :
        /\ ~Crashed
        /\ d.adapter = "pg"
        /\ failures' = failures
        /\ Settle(d, pgRows(rows))

\* pg.query rejects
PGError ==
    \E d \in inflight, err \in PGErrors :
        /\ ~Crashed
        /\ d.adapter = "pg"
        /\ failures' = Failed(d, err)
        /\ Settle(d, pgError(err))

Next ==
    \/ CallSearch
    \/ CallCompare
    \/ Tick
    \/ ESResponse
    \/ ESTransportError
    \/ PGRows
    \/ PGError

Spec == Init /\ [][Next]_vars

----------------------------------------------------------------------------
(* Properties *)

IsCompare == call.fn = "compare"
NPhrases == Len(call.searchPhrases)
Done == IsCompare /\ outcome.state = "fulfilled"
ReportOf == outcome.value

\* the SearchResult history holds a sample t for backend db, entry i, trial k
Measured(db, i, k, t) == [db |-> db, entry |-> i, trial |-> k, timeTaken |-> t] \in returned
HasReturned(db, i, k) == \E x \in returned : x.db = db /\ x.entry = i /\ x.trial = k

\* C1: search with a backend identifier other than "pg" and "es" is rejected
\* with the invalid-backend error, and at no point of the call is an adapter
\* invoked or a dispatch in flight.
C1_InvalidBackendFailsFast ==
    (call.fn = "search" /\ call.db \notin {"pg", "es"}) =>
        /\ outcome = Rejected(InvalidDbError(call.db))
        /\ calls = <<>>
        /\ inflight = {}

C1_Witness ==
    /\ call.fn = "search"
    /\ call.db = "mysql"
    /\ outcome.state = "rejected"

\* C2: when compare(phrases, r) completes, every phrase has an entry in the
\* report and its esTimings and pgTimings both have length exactly r + 1.
C2_TrialRecordLength ==
    Done =>
        /\ Len(ReportOf.perfs) = NPhrases
        /\ \A i \in 1..Len(ReportOf.perfs) :
            /\ Len(ReportOf.perfs[i].es.timings) = call.retakes + 1
            /\ Len(ReportOf.perfs[i].pg.timings) = call.retakes + 1
            /\ Len(perfs[i].esTimings) = call.retakes + 1
            /\ Len(perfs[i].pgTimings) = call.retakes + 1

C2_Witness ==
    /\ Done
    /\ call.retakes = MaxRetakes
    /\ NPhrases = MaxPhrases
    /\ Len(ReportOf.perfs[NPhrases].pg.timings) = MaxRetakes + 1

\* C3: during compare at most two dispatches are in flight; two in flight are
\* the es and pg dispatches of one phrase in one round; and a dispatch still
\* in flight belongs to the latest pair started, so nothing was started for a
\* later phrase or round while it was pending.
C3_FanOutOfTwo ==
    IsCompare =>
        /\ Cardinality(inflight) <= Len(Backends)
        /\ \A d1, d2 \in inflight :
            /\ d1.entry = d2.entry
            /\ d1.trial = d2.trial
            /\ d1.phrase = d2.phrase
            /\ d1 # d2 => {d1.db, d2.db} = {"es", "pg"}
        /\ \A d \in inflight : \A k \in 1..Len(calls) :
            calls[k] = Invocation(d) => k >= Len(calls) - 1

C3_Witness ==
    /\ IsCompare
    /\ Cardinality(inflight) = 2
    /\ cur = 2
    /\ \A d \in inflight : d.trial = 2

\* C4: a search-engine dispatch answered with a malformed envelope fails: its
\* promise is no longer pending and the call that awaited it is rejected.
C4_MalformedResponsePropagates ==
    \A u \in uncaught :
        /\ u.dispatch \notin inflight
        /\ outcome.state = "rejected"

\* C5: an adapter error raised while compare awaits it rejects compare with
\* that same error, no report is returned, and the failed dispatch was
\* invoked once and nothing was dispatched after it.
C5_ErrorPropagatesNoRetry ==
    IsCompare =>
        \A k \in 1..Len(failures) :
            LET f == failures[k]
            IN  f.awaited =>
                    /\ outcome = Rejected(f.reason)
                    /\ Cardinality({j \in 1..Len(calls) :
                            /\ calls[j].adapter = f.db
                            /\ calls[j].entry = f.entry
                            /\ calls[j].trial = f.trial}) = 1
                    /\ calls[Len(calls)].entry = f.entry
                    /\ calls[Len(calls)].trial = f.trial

C5_Witness ==
    /\ IsCompare
    /\ Len(failures) = 1
    /\ failures[1].awaited
    /\ failures[1].db = "pg"
    /\ failures[1].entry = 2
    /\ failures[1].trial = 2
    /\ outcome.state = "rejected"

\* C6: with retakes = 0 compare is rejected only by an adapter error, is
\* fulfilled once every dispatch has returned, and reports for every phrase
\* and backend max = -Infinity, min = Infinity and average = NaN over the
\* empty post-warm-up sequence.
Sentinel(st) ==
    /\ Len(st.timings) = 1
    /\ st.max = NegInfinity
    /\ st.min = Infinity
    /\ st.ave = NaN

C6_ZeroRetakesSentinel ==
    (IsCompare /\ call.retakes = 0) =>
        /\ outcome.state = "rejected" =>
              \E k \in 1..Len(failures) : outcome.reason = failures[k].reason
        /\ Cardinality(returned) = 2 * NPhrases => outcome.state = "fulfilled"
        /\ outcome.state = "fulfilled" =>
              \A i \in 1..Len(ReportOf.perfs) :
                  Sentinel(ReportOf.perfs[i].es) /\ Sentinel(ReportOf.perfs[i].pg)

C6_Witness ==
    /\ Done
    /\ call.retakes = 0
    /\ NPhrases = 2
    /\ ReportOf.perfs[2].es.ave = NaN
    /\ ReportOf.sumOfAveragesES = NaN

\* C7: with retakes >= 1 the reported timings are the r + 1 measured samples
\* in trial order, and max, min and average are those of the samples after
\* the first.
RECURSIVE SumRange(_, _, _)
SumRange(seq, lo, hi) == IF lo > hi THEN 0 ELSE seq[lo] + SumRange(seq, lo + 1, hi)

StatsAfterFirst(st) ==
    LET n == Len(st.timings)
        rest == {st.timings[k] : k \in 2..n}
    IN  /\ st.max.d = 1 /\ st.max.n \in rest /\ \A x \in rest : x <= st.max.n
        /\ st.min.d = 1 /\ st.min.n \in rest /\ \A x \in rest : st.min.n <= x
        /\ st.ave.d > 0
        /\ st.ave.n * (n - 1) = st.ave.d * SumRange(st.timings, 2, n)

C7_WarmUpExcluded ==
    (Done /\ call.retakes >= 1) =>
        \A i \in 1..Len(ReportOf.perfs) :
            LET e == ReportOf.perfs[i]
            IN  /\ Len(e.es.timings) = call.retakes + 1
                /\ Len(e.pg.timings) = call.retakes + 1
                /\ \A k \in 1..(call.retakes + 1) :
                    /\ Measured("es", i, k, e.es.timings[k])
                    /\ Measured("pg", i, k, e.pg.timings[k])
                /\ StatsAfterFirst(e.es)
                /\ StatsAfterFirst(e.pg)

C7_Witness ==
    /\ Done
    /\ call.retakes = 2
    /\ NPhrases >= 1
    /\ ReportOf.perfs[1].es.timings = <<1, 0, 0>>
    /\ ReportOf.perfs[1].es.max = Num(0)
    /\ ReportOf.perfs[1].es.ave = Num(0)

\* C8: the reported grand total of each backend equals the sum, recomputed
\* from the report's per-phrase entries, of the averages of that backend.
RECURSIVE SumOfAve(_, _, _)
SumOfAve(entries, db, i) ==
    IF i = 0 THEN Num(0)
    ELSE Add(SumOfAve(entries, db, i - 1), IF db = "es" THEN entries[i].es.ave ELSE entries[i].pg.ave)

C8_GrandTotals ==
    Done =>
        /\ ReportOf.sumOfAveragesES = SumOfAve(ReportOf.perfs, "es", Len(ReportOf.perfs))
        /\ ReportOf.sumOfAveragesPG = SumOfAve(ReportOf.perfs, "pg", Len(ReportOf.perfs))

C8_Witness ==
    /\ Done
    /\ NPhrases = 2
    /\ call.retakes = 2
    /\ ReportOf.perfs[1].pg.ave = [n |-> 1, d |-> 2]
    /\ ReportOf.perfs[2].pg.ave = Num(0)
    /\ ReportOf.sumOfAveragesPG = [n |-> 1, d |-> 2]

\* C9: the adapter invocations of compare are, in order, those of the rounds
\* 1, 2, ...: in each round every phrase of the input in input order, es then
\* pg; a completed compare has made all of them; and trial k + 1 of a phrase
\* starts only after trial k of every phrase has returned.
ExpectedInvocation(j) ==
    LET q == (j - 1) \div 2
        i == (q % NPhrases) + 1
    IN  [adapter |-> Backends[((j - 1) % 2) + 1], phrase |-> call.searchPhrases[i],
         entry |-> i, trial |-> (q \div NPhrases) + 1]

C9_RoundRobin ==
    IsCompare =>
        /\ \A j \in 1..Len(calls) : calls[j] = ExpectedInvocation(j)
        /\ Done => Len(calls) = 2 * NPhrases * (call.retakes + 1)
        /\ \A j \in 1..Len(calls) :
            calls[j].trial > 1 =>
                \A i \in 1..NPhrases :
                    HasReturned("es", i, calls[j].trial - 1) /\ HasReturned("pg", i, calls[j].trial - 1)

C9_Witness ==
    /\ Done
    /\ NPhrases = 2
    /\ call.searchPhrases[1] = ""
    /\ call.retakes = 2
    /\ Len(calls) = 12
    /\ calls[5].phrase = "" /\ calls[5].trial = 2

\* C10: every sample of a phrase's esTimings is the time the es dispatch of
\* that phrase and trial measured, and every sample of its pgTimings the time
\* the pg dispatch of that phrase and trial measured.
C10_SamplesOwnRecord ==
    IsCompare =>
        \A i \in 1..Len(perfs) :
            /\ Len(perfs[i].esTimings) = Len(perfs[i].pgTimings)
            /\ \A k \in 1..Len(perfs[i].esTimings) :
                /\ Measured("es", i, k, perfs[i].esTimings[k])
                /\ Measured("pg", i, k, perfs[i].pgTimings[k])
                /\ \A x \in returned :
                    (x.entry = i /\ x.trial = k) =>
                        x.timeTaken = (IF x.db = "es" THEN perfs[i].esTimings[k]
                                       ELSE perfs[i].pgTimings[k])

C10_Witness ==
    /\ IsCompare
    /\ Len(perfs) = 2
    /\ Len(perfs[2].esTimings) = 1
    /\ perfs[1].esTimings[1] = 0 /\ perfs[1].pgTimings[1] = 0
    /\ perfs[2].esTimings[1] = 1 /\ perfs[2].pgTimings[1] = 0

====
